---- MODULE Spec2Model ----
(***************************************************************************)
(* Model of the supplier-feed synchronisation scripts seller.py            *)
(* (marketplace A) and market.py (marketplace B).                          *)
(*                                                                         *)
(* Texts (quantity and price cells of the feed) are sequences of           *)
(* one-character strings, so that parsing is computed and not assumed.     *)
(***************************************************************************)
EXTENDS Integers, Sequences, FiniteSets, TLC

VARIABLES
    prog,           \* the script that runs: "seller", "market" ("fn", "divide": a harness)
    feed,           \* watch_remnants: the records of the supplier feed
    catalog,        \* server side: account -> identifiers listed on the marketplace
    totalSkew,      \* server side (A): reported total minus the number of listed items
    lastTokenEmpty, \* server side (A): whether the last page carries an empty last_id
    acct,           \* account being processed (1 = FBS / the only seller account, 2 = DBS)
    pc,             \* position in main
    page,           \* continuation token of the next page request (0 is the empty token)
    product_list,   \* get_offer_ids: items accumulated so far
    lastResp,       \* the last page response received by the current get_offer_ids call
    offer_ids,      \* main's offer_ids list (mutated by create_stocks)
    stocks,         \* main's stocks list
    batches,        \* the chunks still to upload in the current upload loop
    requests,       \* every HTTP request issued to the marketplace, in order
    outcome,        \* how main ended: "running", "ok", or the except branch taken
    failedAt,       \* where the exception was raised: [acct, pc], or the empty record
    argIds,         \* harness: the identifier list I as passed to the functions
    stocksRet,      \* harness: what each script's create_stocks did on a copy of I
    pricesRet,      \* harness: what each script's create_prices did on a copy of I
    lst,            \* harness: the list given to divide
    n               \* harness: the chunk size given to divide

vars == <<prog, feed, catalog, totalSkew, lastTokenEmpty, acct, pc, page,
          product_list, lastResp, offer_ids, stocks, batches, requests,
          outcome, failedAt, argIds, stocksRet, pricesRet, lst, n>>

(***************************************************************************)
(* Bounds of the model.                                                    *)
(***************************************************************************)
MaxFeed == 2        \* records in a feed
MaxIds == 3         \* length of an identifier list given to the functions
PageSize == 1       \* items the server puts on one page
MaxSkew == 1        \* how far the reported total may exceed the listed items
MaxPageRequests == 4 \* page requests explored in one listing
MaxList == 4        \* length of a list given to divide
MaxN == 3           \* chunk size given to divide

(***************************************************************************)
(* Program constants.                                                      *)
(***************************************************************************)
SELLER_STOCK_BATCH == 100
SELLER_PRICE_BATCH == 900
MARKET_STOCK_BATCH == 2000
MARKET_PRICE_BATCH == 500
MORE_THAN_TEN_STOCK == 100

(***************************************************************************)
(* Generic sequence helpers (Python list operations).                      *)
(***************************************************************************)
Min(a, b) == IF a < b THEN a ELSE b

SeqsUpTo(S, k) == UNION {[1..m -> S] : m \in 0..k}

Range(s) == {s[i] : i \in 1..Len(s)}

\* x in lst
InList(x, s) == \E i \in 1..Len(s) : s[i] = x

\* mutant: the matched identifier is not removed from the working list
ListRemove_Kept(s, x) == s

\* mutant: the last occurrence is removed instead of the first
ListRemove_Last(s, x) ==
    LET i == CHOOSE j \in 1..Len(s) : s[j] = x /\ \A k \in (j + 1)..Len(s) : s[k] # x
    IN  SubSeq(s, 1, i - 1) \o SubSeq(s, i + 1, Len(s))

\* lst.remove(x): removes the first occurrence (the callers guard x in lst)
ListRemove(s, x) ==
    LET i == CHOOSE j \in 1..Len(s) : s[j] = x /\ \A k \in 1..(j - 1) : s[k] # x
    IN  SubSeq(s, 1, i - 1) \o SubSeq(s, i + 1, Len(s))

\* lst[i : j] with Python's 0-based, clipped slice bounds
Slice(s, i, j) == SubSeq(s, i + 1, Min(j, Len(s)))

RECURSIVE Flatten(_)
Flatten(ss) == IF ss = <<>> THEN <<>> ELSE Head(ss) \o Flatten(Tail(ss))

NoDup(s) == \A i, j \in 1..Len(s) : s[i] = s[j] => i = j

Occurrences(s, x) == Cardinality({i \in 1..Len(s) : s[i] = x})

(***************************************************************************)
(* Texts and their parsing.                                                *)
(***************************************************************************)
Digits == {"0", "1", "2", "3", "4", "5", "6", "7", "8", "9"}

DigitVal(c) ==
    CASE c = "0" -> 0 [] c = "1" -> 1 [] c = "2" -> 2 [] c = "3" -> 3
      [] c = "4" -> 4 [] c = "5" -> 5 [] c = "6" -> 6 [] c = "7" -> 7
      [] c = "8" -> 8 [] c = "9" -> 9

RECURSIVE DigitsValue(_)
DigitsValue(t) ==
    IF t = <<>> THEN 0
    ELSE 10 * DigitsValue(SubSeq(t, 1, Len(t) - 1)) + DigitVal(t[Len(t)])

RECURSIVE StripLeft(_)
StripLeft(t) == IF t # <<>> /\ Head(t) = " " THEN StripLeft(Tail(t)) ELSE t

RECURSIVE StripRight(_)
StripRight(t) ==
    IF t # <<>> /\ t[Len(t)] = " " THEN StripRight(SubSeq(t, 1, Len(t) - 1)) ELSE t

\* Python's int(text): surrounding blanks, an optional sign, then digits;
\* anything else raises ValueError (ok = FALSE)
PyInt(t) ==
    LET s == StripRight(StripLeft(t))
        signed == s # <<>> /\ Head(s) \in {"+", "-"}
        body == IF signed THEN Tail(s) ELSE s
    IN  IF body # <<>> /\ \A i \in 1..Len(body) : body[i] \in Digits
        THEN [ok |-> TRUE,
              val |-> IF signed /\ Head(s) = "-"
                      THEN 0 - DigitsValue(body) ELSE DigitsValue(body)]
        ELSE [ok |-> FALSE, val |-> 0]

\* price.split(".")[0]
RECURSIVE BeforeDot(_)
BeforeDot(t) ==
    IF t = <<>> \/ Head(t) = "." THEN <<>> ELSE <<Head(t)>> \o BeforeDot(Tail(t))

\* re.sub("[^0-9]", "", text)
OnlyDigits(t) == SelectSeq(t, LAMBDA c : c \in Digits)

price_conversion(price) == OnlyDigits(BeforeDot(price))

(***************************************************************************)
(* Input sets.                                                             *)
(***************************************************************************)
Codes == {"A1", "A2", "A3"}      \* identifiers a marketplace may list
FeedCodes == {"A1", "A2"}        \* codes the supplier's feed may carry
Scripts == {"seller", "market"}

QtyMoreThanTen == <<">", "1", "0">>
QtyOne == <<"1">>
QtyZero == <<"0">>
QtyHundred == <<"1", "0", "0">>
QtyGarbage == <<"a", "b", "c">>
QtyNegative == <<"-", "3">>

QtyTexts == {QtyMoreThanTen, QtyOne, QtyZero, QtyHundred, QtyGarbage, QtyNegative}

\* the quantity texts of the feeds given to the top-level runs
RunQtyTexts == {QtyMoreThanTen, QtyOne, QtyGarbage}

\* the listings an account may have, in pagination order
Catalogs ==
    {SubSeq(<<"A1", "A2", "A3">>, 1, k) : k \in 0..3}
        \cup {SubSeq(<<"A3", "A2", "A1">>, 1, k) : k \in 1..3}

Accounts(script) == IF script = "seller" THEN {1} ELSE {1, 2}

Results == {"ok", "HTTPError", "ReadTimeout", "ConnectionError"}

\* the supplier's price of each item
PriceText(code) ==
    CASE code = "A1" -> <<"1", "0", "0", ".", "0", "0">>
      [] code = "A2" -> <<"5", "0", ".", "0", "0">>

FeedRecords(qtys) ==
    {[code |-> c, quantity |-> q, price |-> PriceText(c)] : c \in FeedCodes, q \in qtys}

(***************************************************************************)
(* seller.py: create_stocks, create_prices, divide.                        *)
(* A call's effect is a record: raised (an exception left the function),   *)
(* value (the returned list) and offer_ids (the caller's list afterwards). *)
(***************************************************************************)
\* mutant: a quantity that does not parse is defaulted to 0
seller_quantity_Defaulted(count) ==
    IF count = QtyMoreThanTen THEN [ok |-> TRUE, val |-> MORE_THAN_TEN_STOCK]
    ELSE IF count = QtyOne THEN [ok |-> TRUE, val |-> 0]
    ELSE IF PyInt(count).ok THEN PyInt(count) ELSE [ok |-> TRUE, val |-> 0]

\* the quantity of a matched record: [ok, val]; ok = FALSE is int()'s ValueError
seller_quantity(count) ==
    IF count = QtyMoreThanTen THEN [ok |-> TRUE, val |-> MORE_THAN_TEN_STOCK]
    ELSE IF count = QtyOne THEN [ok |-> TRUE, val |-> 0]
    ELSE PyInt(count)

seller_stock_entry(offer_id, stock) == [offer_id |-> offer_id, stock |-> stock]

RECURSIVE seller_stocks_loop(_, _, _, _)
seller_stocks_loop(watch_remnants, k, ids, acc) ==
    IF k > Len(watch_remnants)
    THEN [raised |-> FALSE,
          value |-> acc \o [i \in 1..Len(ids) |-> seller_stock_entry(ids[i], 0)],
          offer_ids |-> ids]
    ELSE LET watch == watch_remnants[k] IN
         IF InList(watch.code, ids)
         THEN LET q == seller_quantity(watch.quantity) IN
              IF ~q.ok
              THEN [raised |-> TRUE, value |-> <<>>, offer_ids |-> ids]
              ELSE seller_stocks_loop(watch_remnants, k + 1,
                                      ListRemove(ids, watch.code),
                                      Append(acc, seller_stock_entry(watch.code, q.val)))
         ELSE seller_stocks_loop(watch_remnants, k + 1, ids, acc)

seller_create_stocks(watch_remnants, ids) ==
    seller_stocks_loop(watch_remnants, 1, ids, <<>>)

seller_price_entry(watch) ==
    [auto_action_enabled |-> "UNKNOWN", currency_code |-> "RUB",
     offer_id |-> watch.code, old_price |-> <<"0">>,
     price |-> price_conversion(watch.price)]

seller_create_prices(watch_remnants, ids) ==
    [raised |-> FALSE,
     value |-> LET matched == SelectSeq(watch_remnants, LAMBDA w : InList(w.code, ids))
               IN  [i \in 1..Len(matched) |-> seller_price_entry(matched[i])],
     offer_ids |-> ids]

\* mutant: the range steps by n + 1, so one element is skipped between chunks
RECURSIVE divide_from_Skip(_, _, _)
divide_from_Skip(l, size, i) ==
    IF i >= Len(l) THEN <<>>
    ELSE <<Slice(l, i, i + size)>> \o divide_from_Skip(l, size, i + size + 1)

\* list(divide(lst, n)): the slices lst[i : i + n] for i in range(0, len(lst), n)
RECURSIVE divide_from(_, _, _)
divide_from(l, size, i) ==
    IF i >= Len(l) THEN <<>>
    ELSE <<Slice(l, i, i + size)>> \o divide_from(l, size, i + size)

divide(l, size) == divide_from(l, size, 0)

(***************************************************************************)
(* market.py: create_stocks, create_prices.                                *)
(***************************************************************************)
market_quantity(count) ==
    IF count = QtyMoreThanTen THEN [ok |-> TRUE, val |-> MORE_THAN_TEN_STOCK]
    ELSE IF count = QtyOne THEN [ok |-> TRUE, val |-> 0]
    ELSE PyInt(count)

market_stock_entry(sku, warehouse_id, count) ==
    [sku |-> sku, warehouseId |-> warehouse_id, count |-> count, type |-> "FIT"]

RECURSIVE market_stocks_loop(_, _, _, _, _)
market_stocks_loop(watch_remnants, k, ids, warehouse_id, acc) ==
    IF k > Len(watch_remnants)
    THEN [raised |-> FALSE,
          value |-> acc \o [i \in 1..Len(ids) |->
                                market_stock_entry(ids[i], warehouse_id, 0)],
          offer_ids |-> ids]
    ELSE LET watch == watch_remnants[k] IN
         IF InList(watch.code, ids)
         THEN LET q == market_quantity(watch.quantity) IN
              IF ~q.ok
              THEN [raised |-> TRUE, value |-> <<>>, offer_ids |-> ids]
              ELSE market_stocks_loop(watch_remnants, k + 1,
                                      ListRemove(ids, watch.code), warehouse_id,
                                      Append(acc, market_stock_entry(watch.code,
                                                                     warehouse_id, q.val)))
         ELSE market_stocks_loop(watch_remnants, k + 1, ids, warehouse_id, acc)

market_create_stocks(watch_remnants, ids, warehouse_id) ==
    market_stocks_loop(watch_remnants, 1, ids, warehouse_id, <<>>)

\* int(price_conversion(...)) raises ValueError when no digit is left
market_create_prices(watch_remnants, ids) ==
    LET matched == SelectSeq(watch_remnants, LAMBDA w : InList(w.code, ids))
        parsed == [i \in 1..Len(matched) |-> PyInt(price_conversion(matched[i].price))]
    IN  IF \E i \in 1..Len(matched) : ~parsed[i].ok
        THEN [raised |-> TRUE, value |-> <<>>, offer_ids |-> ids]
        ELSE [raised |-> FALSE,
              value |-> [i \in 1..Len(matched) |->
                            [id |-> matched[i].code, value |-> parsed[i].val,
                             currencyId |-> "RUR"]],
              offer_ids |-> ids]

\* the identifier and the quantity of a stock update, whichever script built it
StockId(u) == IF "sku" \in DOMAIN u THEN u.sku ELSE u.offer_id
StockQty(u) == IF "sku" \in DOMAIN u THEN u.count ELSE u.stock
PriceId(u) == IF "id" \in DOMAIN u THEN u.id ELSE u.offer_id

WarehouseOf(a) == IF a = 1 THEN "WAREHOUSE_FBS_ID" ELSE "WAREHOUSE_DBS_ID"

create_stocks(script, watch_remnants, ids) ==
    IF script = "seller" THEN seller_create_stocks(watch_remnants, ids)
    ELSE market_create_stocks(watch_remnants, ids, WarehouseOf(1))

create_prices(script, watch_remnants, ids) ==
    IF script = "seller" THEN seller_create_prices(watch_remnants, ids)
    ELSE market_create_prices(watch_remnants, ids)

(***************************************************************************)
(* Values the variables have where a specification does not use them.      *)
(***************************************************************************)
NoCall == [called |-> FALSE, raised |-> FALSE, value |-> <<>>, offer_ids |-> <<>>]

NoCalls == [s \in Scripts |-> NoCall]

Called(r) == [called |-> TRUE, raised |-> r.raised, value |-> r.value,
              offer_ids |-> r.offer_ids]

NoFailure == [failed |-> FALSE, acct |-> 0, pc |-> "", error |-> ""]

ServerIdle ==
    /\ catalog = <<>>
    /\ totalSkew = 0
    /\ lastTokenEmpty = TRUE

MainIdle ==
    /\ acct = 0
    /\ page = 0
    /\ product_list = <<>>
    /\ lastResp = [received |-> FALSE, token |-> 0, total |-> 0]
    /\ offer_ids = <<>>
    /\ stocks = <<>>
    /\ outcome = "idle"
    /\ failedAt = NoFailure

FnIdle ==
    /\ argIds = <<>>
    /\ stocksRet = NoCalls
    /\ pricesRet = NoCalls

DivideIdle ==
    /\ lst = <<>>
    /\ n = 1

(***************************************************************************)
(* SpecFn: create_stocks and create_prices applied to every feed F and     *)
(* identifier list I within the bounds, each on a fresh copy of I.         *)
(***************************************************************************)
InitFn ==
    /\ prog = "fn"
    /\ feed \in SeqsUpTo(FeedRecords(QtyTexts), MaxFeed)
    /\ argIds \in SeqsUpTo(Codes, MaxIds)
    /\ stocksRet = NoCalls
    /\ pricesRet = NoCalls
    /\ pc = "fn"
    /\ batches = <<>>
    /\ requests = <<>>
    /\ ServerIdle /\ MainIdle /\ DivideIdle

CallCreateStocks ==
    /\ pc = "fn"
    /\ ~stocksRet["seller"].called
    /\ stocksRet' = [s \in Scripts |-> Called(create_stocks(s, feed, argIds))]
    /\ UNCHANGED <<prog, feed, catalog, totalSkew, lastTokenEmpty, acct, pc, page,
                   product_list, lastResp, offer_ids, stocks, batches, requests,
                   outcome, failedAt, argIds, pricesRet, lst, n>>

CallCreatePrices ==
    /\ pc = "fn"
    /\ stocksRet["seller"].called
    /\ ~pricesRet["seller"].called
    /\ pricesRet' = [s \in Scripts |-> Called(create_prices(s, feed, argIds))]
    /\ UNCHANGED <<prog, feed, catalog, totalSkew, lastTokenEmpty, acct, pc, page,
                   product_list, lastResp, offer_ids, stocks, batches, requests,
                   outcome, failedAt, argIds, stocksRet, lst, n>>

NextFn == CallCreateStocks \/ CallCreatePrices

SpecFn == InitFn /\ [][NextFn]_vars

(***************************************************************************)
(* SpecDivide: the upload loop `for chunk in list(divide(lst, n)): upload` *)
(* on every list and chunk size within the bounds.                         *)
(***************************************************************************)
InitDivide ==
    /\ prog = "divide"
    /\ lst \in SeqsUpTo(Codes, MaxList)
    /\ n \in 1..MaxN
    /\ pc = "divide"
    /\ batches = <<>>
    /\ requests = <<>>
    /\ feed = <<>>
    /\ ServerIdle /\ MainIdle /\ FnIdle

\* list(divide(lst, n)) is built before the first upload
DivideCall ==
    /\ pc = "divide"
    /\ batches' = divide(lst, n)
    /\ pc' = "upload"
    /\ UNCHANGED <<prog, feed, catalog, totalSkew, lastTokenEmpty, acct, page,
                   product_list, lastResp, offer_ids, stocks, requests,
                   outcome, failedAt, argIds, stocksRet, pricesRet, lst, n>>

UploadChunk ==
    /\ pc = "upload"
    /\ batches # <<>>
    /\ requests' = Append(requests, Head(batches))
    /\ batches' = Tail(batches)
    /\ UNCHANGED <<prog, feed, catalog, totalSkew, lastTokenEmpty, acct, pc, page,
                   product_list, lastResp, offer_ids, stocks,
                   outcome, failedAt, argIds, stocksRet, pricesRet, lst, n>>

UploadLoopEnd ==
    /\ pc = "upload"
    /\ batches = <<>>
    /\ pc' = "uploaded"
    /\ UNCHANGED <<prog, feed, catalog, totalSkew, lastTokenEmpty, acct, page,
                   product_list, lastResp, offer_ids, stocks, batches, requests,
                   outcome, failedAt, argIds, stocksRet, pricesRet, lst, n>>

NextDivide == DivideCall \/ UploadChunk \/ UploadLoopEnd

SpecDivide == InitDivide /\ [][NextDivide]_vars

(***************************************************************************)
(* The marketplace servers.  A page request carries a continuation token;  *)
(* the token is the offset of the next item and 0 is the empty token.      *)
(***************************************************************************)
\* marketplace A, POST /v2/product/list: items, total and last_id
SellerServerPage(a, token) ==
    LET cat == catalog[a]
        isLast == token + PageSize >= Len(cat)
    IN  [items |-> Slice(cat, token, token + PageSize),
         total |-> Len(cat) + totalSkew,
         token |-> IF ~isLast THEN token + PageSize
                   ELSE IF lastTokenEmpty THEN 0 ELSE Len(cat)]

\* marketplace B, GET offer-mapping-entries: entries and paging.nextPageToken
MarketServerPage(a, token) ==
    LET cat == catalog[a]
        isLast == token + PageSize >= Len(cat)
    IN  [items |-> Slice(cat, token, token + PageSize),
         total |-> Len(cat),
         token |-> IF isLast THEN 0 ELSE token + PageSize]

\* a server is well behaved when its pages partition the listing and the
\* total it reports is the number of listed items
WellBehaved == totalSkew = 0

Request(kind, a, token, body, result) ==
    [kind |-> kind, acct |-> a, token |-> token, body |-> body, result |-> result]

RequestsOf(a, kinds) == SelectSeq(requests, LAMBDA r : r.acct = a /\ r.kind \in kinds)

PageTokens(a) ==
    LET rs == RequestsOf(a, {"product_list"}) IN [i \in 1..Len(rs) |-> rs[i].token]

Bodies(a, kind) ==
    LET rs == SelectSeq(requests,
                        LAMBDA r : r.acct = a /\ r.kind = kind /\ r.result = "ok")
    IN  [i \in 1..Len(rs) |-> rs[i].body]

NoResponse == [received |-> FALSE, token |-> 0, total |-> 0]

(***************************************************************************)
(* Exceptions.  Both mains wrap their work in one try statement with three *)
(* except branches; whichever is taken, main returns.                      *)
(***************************************************************************)
ExceptBranch(error) ==
    IF error = "ReadTimeout" THEN "ReadTimeout"
    ELSE IF error = "ConnectionError" THEN "ConnectionError"
    ELSE "ERROR_2"

Failure(error) == [failed |-> TRUE, acct |-> acct, pc |-> pc, error |-> error]

\* seller.main: an exception raised inside the try block
SellerRaise(error) ==
    /\ outcome' = ExceptBranch(error)
    /\ failedAt' = Failure(error)
    /\ pc' = "done"
    /\ UNCHANGED <<acct, page, product_list, lastResp>>

\* mutant: the except branch goes on with the next account
MarketRaise_Continue(error) ==
    /\ failedAt' = Failure(error)
    /\ IF acct = 1
       THEN /\ acct' = 2
            /\ pc' = "list"
            /\ outcome' = "running"
            /\ page' = 0
            /\ product_list' = <<>>
            /\ lastResp' = NoResponse
       ELSE /\ outcome' = ExceptBranch(error)
            /\ pc' = "done"
            /\ UNCHANGED <<acct, page, product_list, lastResp>>

\* market.main: an exception raised inside the try block, which spans both accounts
MarketRaise(error) ==
    /\ outcome' = ExceptBranch(error)
    /\ failedAt' = Failure(error)
    /\ pc' = "done"
    /\ UNCHANGED <<acct, page, product_list, lastResp>>

\* mutant: a failed page ends the listing with the items gathered so far
MarketPageFailed_Swallowed(error) ==
    /\ failedAt' = Failure(error)
    /\ pc' = "create_stocks"
    /\ offer_ids' = product_list
    /\ UNCHANGED <<outcome, acct, page, product_list, lastResp>>

\* market.get_product_list: raise_for_status() on a failed page request; the
\* exception passes through get_offer_ids
MarketPageFailed(error) ==
    /\ MarketRaise(error)
    /\ UNCHANGED offer_ids

\* seller.get_product_list: raise_for_status() on a failed page request
SellerPageFailed(error) ==
    /\ SellerRaise(error)
    /\ UNCHANGED offer_ids

\* mutant: the loop ends on an empty last_id
seller_listing_done_OnEmptyToken(total, items, last_id) == last_id = 0

\* seller.get_offer_ids: the loop ends when total == len(product_list)
seller_listing_done(total, items, last_id) == total = Len(items)

\* market.get_offer_ids: the loop ends when the page token is empty (`not page`)
market_listing_done(next_page) == next_page = 0

(***************************************************************************)
(* seller.main                                                             *)
(***************************************************************************)
SellerListPage ==
    /\ prog = "seller" /\ pc = "list"
    /\ Len(PageTokens(acct)) < MaxPageRequests
    /\ \E res \in Results :
        /\ requests' = Append(requests, Request("product_list", acct, page, <<>>, res))
        /\ IF res = "ok"
           THEN LET some_prod == SellerServerPage(acct, page)
                    pl == product_list \o some_prod.items
                IN  /\ product_list' = pl
                    /\ page' = some_prod.token
                    /\ lastResp' = [received |-> TRUE, token |-> some_prod.token,
                                    total |-> some_prod.total]
                    /\ IF seller_listing_done(some_prod.total, pl, some_prod.token)
                       THEN offer_ids' = pl /\ pc' = "download"
                       ELSE UNCHANGED <<offer_ids, pc>>
                    /\ UNCHANGED <<outcome, failedAt, acct>>
           ELSE SellerPageFailed(res)
    /\ UNCHANGED <<prog, feed, catalog, totalSkew, lastTokenEmpty, stocks, batches,
                   argIds, stocksRet, pricesRet, lst, n>>

SellerDownload ==
    /\ prog = "seller" /\ pc = "download"
    /\ \E res \in Results :
        IF res = "ok"
        THEN pc' = "create_stocks"
             /\ UNCHANGED <<outcome, failedAt, acct, page, product_list, lastResp>>
        ELSE SellerRaise(res)
    /\ UNCHANGED <<prog, feed, catalog, totalSkew, lastTokenEmpty, offer_ids, stocks,
                   batches, requests, argIds, stocksRet, pricesRet, lst, n>>

SellerCreateStocks ==
    /\ prog = "seller" /\ pc = "create_stocks"
    /\ LET r == seller_create_stocks(feed, offer_ids) IN
        /\ offer_ids' = r.offer_ids
        /\ IF r.raised
           THEN SellerRaise("ValueError") /\ UNCHANGED <<stocks, batches>>
           ELSE /\ stocks' = r.value
                /\ batches' = divide(r.value, SELLER_STOCK_BATCH)
                /\ pc' = "upload_stocks"
                /\ UNCHANGED <<outcome, failedAt, acct, page, product_list, lastResp>>
    /\ UNCHANGED <<prog, feed, catalog, totalSkew, lastTokenEmpty, requests,
                   argIds, stocksRet, pricesRet, lst, n>>

SellerUploadStocks ==
    /\ prog = "seller" /\ pc = "upload_stocks" /\ batches # <<>>
    /\ \E res \in Results :
        /\ requests' = Append(requests,
                              Request("update_stocks", acct, 0, Head(batches), res))
        /\ IF res = "ok"
           THEN batches' = Tail(batches)
                /\ UNCHANGED <<outcome, failedAt, acct, pc, page, product_list, lastResp>>
           ELSE SellerRaise(res) /\ UNCHANGED batches
    /\ UNCHANGED <<prog, feed, catalog, totalSkew, lastTokenEmpty, offer_ids, stocks,
                   argIds, stocksRet, pricesRet, lst, n>>

\* prices are built from the offer_ids list that create_stocks has worked on
SellerCreatePrices ==
    /\ prog = "seller" /\ pc = "upload_stocks" /\ batches = <<>>
    /\ LET r == seller_create_prices(feed, offer_ids) IN
        /\ batches' = divide(r.value, SELLER_PRICE_BATCH)
        /\ pc' = "upload_prices"
    /\ UNCHANGED <<prog, feed, catalog, totalSkew, lastTokenEmpty, acct, page,
                   product_list, lastResp, offer_ids, stocks, requests, outcome,
                   failedAt, argIds, stocksRet, pricesRet, lst, n>>

SellerUploadPrices ==
    /\ prog = "seller" /\ pc = "upload_prices" /\ batches # <<>>
    /\ \E res \in Results :
        /\ requests' = Append(requests,
                              Request("update_price", acct, 0, Head(batches), res))
        /\ IF res = "ok"
           THEN batches' = Tail(batches)
                /\ UNCHANGED <<outcome, failedAt, acct, pc, page, product_list, lastResp>>
           ELSE SellerRaise(res) /\ UNCHANGED batches
    /\ UNCHANGED <<prog, feed, catalog, totalSkew, lastTokenEmpty, offer_ids, stocks,
                   argIds, stocksRet, pricesRet, lst, n>>

SellerFinish ==
    /\ prog = "seller" /\ pc = "upload_prices" /\ batches = <<>>
    /\ outcome' = "ok"
    /\ pc' = "done"
    /\ UNCHANGED <<prog, feed, catalog, totalSkew, lastTokenEmpty, acct, page,
                   product_list, lastResp, offer_ids, stocks, batches, requests,
                   failedAt, argIds, stocksRet, pricesRet, lst, n>>

(***************************************************************************)
(* market.main                                                             *)
(***************************************************************************)
\* download_stock() is called before the try statement: its exception is not caught
MarketDownload ==
    /\ prog = "market" /\ pc = "download"
    /\ \E res \in Results :
        IF res = "ok"
        THEN pc' = "list" /\ UNCHANGED <<outcome, failedAt>>
        ELSE /\ outcome' = "uncaught"
             /\ failedAt' = Failure(res)
             /\ pc' = "done"
    /\ UNCHANGED <<prog, feed, catalog, totalSkew, lastTokenEmpty, acct, page,
                   product_list, lastResp, offer_ids, stocks, batches, requests,
                   argIds, stocksRet, pricesRet, lst, n>>

MarketListPage ==
    /\ prog = "market" /\ pc = "list"
    /\ Len(PageTokens(acct)) < MaxPageRequests
    /\ \E res \in Results :
        /\ requests' = Append(requests, Request("product_list", acct, page, <<>>, res))
        /\ IF res = "ok"
           THEN LET some_prod == MarketServerPage(acct, page)
                    pl == product_list \o some_prod.items
                IN  /\ product_list' = pl
                    /\ page' = some_prod.token
                    /\ lastResp' = [received |-> TRUE, token |-> some_prod.token,
                                    total |-> some_prod.total]
                    /\ IF market_listing_done(some_prod.token)
                       THEN offer_ids' = pl /\ pc' = "create_stocks"
                       ELSE UNCHANGED <<offer_ids, pc>>
                    /\ UNCHANGED <<outcome, failedAt, acct>>
           ELSE MarketPageFailed(res)
    /\ UNCHANGED <<prog, feed, catalog, totalSkew, lastTokenEmpty, stocks, batches,
                   argIds, stocksRet, pricesRet, lst, n>>

MarketCreateStocks ==
    /\ prog = "market" /\ pc = "create_stocks"
    /\ LET r == market_create_stocks(feed, offer_ids, WarehouseOf(acct)) IN
        /\ offer_ids' = r.offer_ids
        /\ IF r.raised
           THEN MarketRaise("ValueError") /\ UNCHANGED <<stocks, batches>>
           ELSE /\ stocks' = r.value
                /\ batches' = divide(r.value, MARKET_STOCK_BATCH)
                /\ pc' = "upload_stocks"
                /\ UNCHANGED <<outcome, failedAt, acct, page, product_list, lastResp>>
    /\ UNCHANGED <<prog, feed, catalog, totalSkew, lastTokenEmpty, requests,
                   argIds, stocksRet, pricesRet, lst, n>>

MarketUploadStocks ==
    /\ prog = "market" /\ pc = "upload_stocks" /\ batches # <<>>
    /\ \E res \in Results :
        /\ requests' = Append(requests,
                              Request("update_stocks", acct, 0, Head(batches), res))
        /\ IF res = "ok"
           THEN batches' = Tail(batches)
                /\ UNCHANGED <<outcome, failedAt, acct, pc, page, product_list, lastResp>>
           ELSE MarketRaise(res) /\ UNCHANGED batches
    /\ UNCHANGED <<prog, feed, catalog, totalSkew, lastTokenEmpty, offer_ids, stocks,
                   argIds, stocksRet, pricesRet, lst, n>>

\* what the body of market.upload_prices sends when it is run: the chunks of
\* the prices built from a fresh listing of the account
market_upload_prices(watch_remnants, listing) ==
    divide(market_create_prices(watch_remnants, listing).value, MARKET_PRICE_BATCH)

\* main calls the coroutine function upload_prices without awaiting it: the
\* call builds a coroutine object and none of the body runs.  main then goes
\* on with the second account, or leaves the try statement.
MarketCallUploadPrices ==
    /\ prog = "market" /\ pc = "upload_stocks" /\ batches = <<>>
    /\ IF acct = 1
       THEN /\ acct' = 2
            /\ pc' = "list"
            /\ page' = 0
            /\ product_list' = <<>>
            /\ lastResp' = NoResponse
            /\ UNCHANGED outcome
       ELSE /\ outcome' = "ok"
            /\ pc' = "done"
            /\ UNCHANGED <<acct, page, product_list, lastResp>>
    /\ UNCHANGED <<prog, feed, catalog, totalSkew, lastTokenEmpty, offer_ids, stocks,
                   batches, requests, failedAt, argIds, stocksRet, pricesRet, lst, n>>

(***************************************************************************)
(* Spec: one top-level run of either script, against every server and feed *)
(* within the bounds.                                                      *)
(***************************************************************************)
Init ==
    /\ prog \in Scripts
    /\ feed \in SeqsUpTo(FeedRecords(RunQtyTexts), MaxFeed)
    /\ catalog \in [Accounts(prog) -> Catalogs]
    /\ totalSkew \in (IF prog = "seller" THEN 0..MaxSkew ELSE {0})
    /\ lastTokenEmpty \in (IF prog = "seller" THEN BOOLEAN ELSE {TRUE})
    /\ acct = 1
    /\ pc = (IF prog = "seller" THEN "list" ELSE "download")
    /\ page = 0
    /\ product_list = <<>>
    /\ lastResp = NoResponse
    /\ offer_ids = <<>>
    /\ stocks = <<>>
    /\ batches = <<>>
    /\ requests = <<>>
    /\ outcome = "running"
    /\ failedAt = NoFailure
    /\ FnIdle /\ DivideIdle

Next ==
    \/ SellerListPage
    \/ SellerDownload
    \/ SellerCreateStocks
    \/ SellerUploadStocks
    \/ SellerCreatePrices
    \/ SellerUploadPrices
    \/ SellerFinish
    \/ MarketDownload
    \/ MarketListPage
    \/ MarketCreateStocks
    \/ MarketUploadStocks
    \/ MarketCallUploadPrices

Spec == Init /\ [][Next]_vars

(***************************************************************************)
(* Properties of create_stocks, create_prices and divide.                  *)
(***************************************************************************)
Ids(updates) == [i \in 1..Len(updates) |-> StockId(updates[i])]

PriceIds(updates) == [i \in 1..Len(updates) |-> PriceId(updates[i])]

FeedCodeSeq(F) == [k \in 1..Len(F) |-> F[k].code]

\* the subsequence of s at the indexes in idx, in order
RECURSIVE AtIndexes(_, _)
AtIndexes(s, idx) ==
    IF s = <<>> THEN <<>>
    ELSE AtIndexes(SubSeq(s, 1, Len(s) - 1), idx)
         \o (IF Len(s) \in idx THEN <<s[Len(s)]>> ELSE <<>>)

\* record k of F is matched when its code still occurs in the working list:
\* fewer earlier records carry the code than I has occurrences of it
MatchedIdx(F, I) ==
    {k \in 1..Len(F) :
        Occurrences(SubSeq(FeedCodeSeq(F), 1, k - 1), F[k].code) < Occurrences(I, F[k].code)}

\* position i of I is left unmatched when the feed has too few records of its
\* code to consume it (each matched record consumes the first occurrence left)
UnmatchedIdx(F, I) ==
    {i \in 1..Len(I) :
        Occurrences(SubSeq(I, 1, i - 1), I[i]) >= Occurrences(FeedCodeSeq(F), I[i])}

StocksReturned(s) == stocksRet[s].called /\ ~stocksRet[s].raised

\* C1: whenever create_stocks(F, I) returns, it returns exactly len(I) stock
\* updates, and when I has no duplicates every identifier of I is the
\* identifier of exactly one of them.
C1_StocksCoverIdentifiers ==
    \A s \in Scripts :
        StocksReturned(s) =>
            /\ Len(stocksRet[s].value) = Len(argIds)
            /\ NoDup(argIds) =>
                  \A id \in Range(argIds) : Occurrences(Ids(stocksRet[s].value), id) = 1

\* a feed with a repeated, listed code and three distinct identifiers
C1_Witness ==
    /\ \A s \in Scripts : StocksReturned(s)
    /\ Len(feed) = 2 /\ feed[1].code = feed[2].code
    /\ InList(feed[1].code, argIds)
    /\ Len(argIds) = 3 /\ NoDup(argIds)

\* C9: the stock updates are one update per matched feed record in feed
\* order, then one zero-quantity update per identifier left unmatched in the
\* order of I; unlisted feed codes contribute nothing and an empty I gives
\* an empty result.
C9_StockOrdering ==
    \A s \in Scripts :
        StocksReturned(s) =>
            LET out == stocksRet[s].value
                matched == AtIndexes(FeedCodeSeq(feed), MatchedIdx(feed, argIds))
                unmatched == AtIndexes(argIds, UnmatchedIdx(feed, argIds))
            IN  /\ Ids(out) = matched \o unmatched
                /\ \A j \in (Len(matched) + 1)..Len(out) : StockQty(out[j]) = 0
                /\ \A k \in 1..Len(feed) :
                      ~InList(feed[k].code, argIds) => ~InList(feed[k].code, Ids(out))
                /\ argIds = <<>> => out = <<>>

\* a matched record after an unlisted one, and two identifiers left unmatched
C9_Witness ==
    /\ \A s \in Scripts : StocksReturned(s)
    /\ Len(feed) = 2
    /\ ~InList(feed[1].code, argIds) /\ InList(feed[2].code, argIds)
    /\ Len(argIds) = 3
    /\ Cardinality(UnmatchedIdx(feed, argIds)) = 2

\* the quantity the feed texts of the model stand for
ExpectedQuantity(text) ==
    CASE text = QtyMoreThanTen -> 100
      [] text = QtyOne -> 0
      [] text = QtyZero -> 0
      [] text = QtyHundred -> 100
      [] text = QtyNegative -> 0 - 3

IsIntegerText(text) == text \in {QtyOne, QtyZero, QtyHundred, QtyNegative}

\* C10: a matched record's stock update carries 100 for '>10', 0 for '1' and
\* the integer value of the text otherwise; create_stocks raises, and returns
\* no list, exactly when a matched record's text is none of these.
C10_QuantityNormalization ==
    \A s \in Scripts :
        stocksRet[s].called =>
            LET midx == MatchedIdx(feed, argIds)
                mrec == AtIndexes(feed, midx)
                bad(w) == w.quantity # QtyMoreThanTen /\ ~IsIntegerText(w.quantity)
            IN  /\ stocksRet[s].raised <=> \E k \in midx : bad(feed[k])
                /\ stocksRet[s].raised => stocksRet[s].value = <<>>
                /\ ~stocksRet[s].raised =>
                      \A j \in 1..Len(mrec) :
                          StockQty(stocksRet[s].value[j]) = ExpectedQuantity(mrec[j].quantity)

\* a matched '>10' record followed by a matched record whose text is garbage
C10_Witness ==
    /\ \A s \in Scripts : stocksRet[s].called /\ stocksRet[s].raised
    /\ Len(feed) = 2
    /\ feed[1].quantity = QtyMoreThanTen /\ feed[2].quantity = QtyGarbage
    /\ MatchedIdx(feed, argIds) = {1, 2}

\* a matched record of every text that parses
C10_WitnessValues ==
    /\ \A s \in Scripts : StocksReturned(s)
    /\ Len(feed) = 2
    /\ feed[1].quantity = QtyOne /\ feed[2].quantity = QtyHundred
    /\ MatchedIdx(feed, argIds) = {1, 2}

\* C8: with I free of duplicates, create_stocks and create_prices on fresh
\* copies of I give price updates with no identifier twice, for exactly the
\* identifiers whose stock update came from a feed record, and as many of
\* them as there are feed-sourced stock updates.
C8_PricesMatchFeedSourcedStocks ==
    \A s \in Scripts :
        (NoDup(argIds) /\ StocksReturned(s)
            /\ pricesRet[s].called /\ ~pricesRet[s].raised) =>
            LET fromFeed == Len(stocksRet[s].value) - Len(stocksRet[s].offer_ids)
                sourced == SubSeq(Ids(stocksRet[s].value), 1, fromFeed)
                priced == PriceIds(pricesRet[s].value)
            IN  /\ NoDup(priced)
                /\ Range(priced) = Range(sourced)
                /\ Len(priced) = fromFeed

\* C4: uploading every chunk of divide(lst, n) issues ceil(len(lst)/n) upload
\* calls, the chunks concatenated in call order give lst, every chunk but the
\* last has n elements and none is empty.
C4_DividePartition ==
    (prog = "divide" /\ pc = "uploaded") =>
        /\ Len(requests) = (Len(lst) + n - 1) \div n
        /\ Flatten(requests) = lst
        /\ \A i \in 1..(Len(requests) - 1) : Len(requests[i]) = n
        /\ \A i \in 1..Len(requests) : requests[i] # <<>>
        /\ lst = <<>> => requests = <<>>

\* a list whose last chunk is shorter than the others
C4_Witness ==
    /\ prog = "divide" /\ pc = "uploaded"
    /\ Len(lst) = 3 /\ n = 2
    /\ Len(requests) = 2

(***************************************************************************)
(* Properties of the top-level runs.                                       *)
(***************************************************************************)
ScenarioFeed ==
    << [code |-> "A1", quantity |-> QtyMoreThanTen, price |-> PriceText("A1")],
       [code |-> "A2", quantity |-> QtyOne, price |-> PriceText("A2")] >>

ScenarioCatalog == <<"A1", "A2", "A3">>

PricePairs(updates) ==
    [i \in 1..Len(updates) |-> <<updates[i].offer_id, updates[i].price>>]

\* C2: a seller.main run that ends without error has uploaded one price
\* update for every feed record whose code is listed; for the scenario feed
\* and the listing [A1, A2, A3] these are A1:100 and A2:50.
C2_PricesCoverListedFeedRecords ==
    (prog = "seller" /\ outcome = "ok" /\ WellBehaved) =>
        LET sent == Flatten(Bodies(1, "update_price")) IN
        /\ sent = seller_create_prices(feed, catalog[1]).value
        /\ (feed = ScenarioFeed /\ catalog[1] = ScenarioCatalog) =>
              PricePairs(sent) = << <<"A1", <<"1", "0", "0">> >>,
                                    <<"A2", <<"5", "0">> >> >>

\* the run moved past account a: its stock batches were all uploaded
PastAccount(a) == prog = "market" /\ (acct > a \/ outcome = "ok")

\* C3: in a market.main run, once an account's stock batches are uploaded,
\* every chunk of the account's price updates has been sent with update_price
\* by the time the run goes on to the next account or ends.
C3_PricesSentPerAccount ==
    \A a \in {1, 2} :
        PastAccount(a) => Bodies(a, "update_price") = market_upload_prices(feed, catalog[a])

ListingFailed == failedAt.failed /\ failedAt.pc = "list"

\* C5 as stated: a page with an empty continuation token ends the listing of
\* either marketplace, and a well-behaved server is never asked for the same
\* token twice.
C5_EmptyTokenEndsListing ==
    /\ (prog \in Scripts /\ lastResp.received /\ lastResp.token = 0) => pc # "list"
    /\ (prog \in Scripts /\ WellBehaved) => NoDup(PageTokens(acct))

\* C5 amended: marketplace B's listing ends as soon as a page has no
\* nextPageToken; marketplace A's listing ends exactly when the reported
\* total equals the number of items accumulated, whatever last_id is; a
\* well-behaved server is never asked for the same token twice.
C5_ListingTermination ==
    /\ (prog = "market" /\ lastResp.received /\ lastResp.token = 0) => pc # "list"
    /\ (prog = "seller" /\ lastResp.received /\ ~ListingFailed) =>
          (pc # "list" <=> lastResp.total = Len(product_list))
    /\ (prog \in Scripts /\ WellBehaved) => NoDup(PageTokens(acct))

\* marketplace A asked again although the last page carried an empty last_id
C5_Witness ==
    /\ prog = "seller" /\ pc = "list"
    /\ lastResp.received /\ lastResp.token = 0
    /\ Len(PageTokens(1)) = 3

\* a three-page listing of a well-behaved marketplace A ended by the total
C5_WitnessTotal ==
    /\ prog = "seller" /\ WellBehaved /\ pc = "download"
    /\ lastResp.token # 0
    /\ Len(PageTokens(1)) = 3

\* a three-page listing of marketplace B ended by the absent token
C5_WitnessMarket ==
    /\ prog = "market" /\ pc = "create_stocks"
    /\ lastResp.received /\ lastResp.token = 0
    /\ Len(PageTokens(acct)) = 3

\* C6: when a page request of an account's listing fails with a non-2xx
\* response, the run ends there with the error: the failed request is the
\* last request issued (no retry) and no update_stocks or update_price
\* request is ever issued for that account.
C6_FailedListingUploadsNothing ==
    (ListingFailed /\ failedAt.error = "HTTPError") =>
        /\ pc = "done"
        /\ outcome = "ERROR_2"
        /\ RequestsOf(failedAt.acct, {"update_stocks", "update_price"}) = <<>>
        /\ requests[Len(requests)] =
              Request("product_list", failedAt.acct, page, <<>>, "HTTPError")
        /\ WellBehaved => Occurrences(PageTokens(failedAt.acct), page) = 1

\* the second page of the second account's listing fails
C6_Witness ==
    /\ prog = "market"
    /\ ListingFailed /\ failedAt.error = "HTTPError" /\ failedAt.acct = 2
    /\ product_list # <<>>
    /\ InList(product_list[1], FeedCodeSeq(feed))

AccountError ==
    /\ prog = "market"
    /\ failedAt.failed
    /\ failedAt.acct = 1
    /\ failedAt.pc # "download"
    /\ failedAt.error \in {"ReadTimeout", "ConnectionError"}

\* C7 as stated: after a timeout or connection error in the first account's
\* processing, the second account is still listed.
C7_NextAccountStillProcessed ==
    (AccountError /\ pc = "done") => RequestsOf(2, {"product_list"}) # <<>>

\* C7 amended: a timeout or connection error raised while the first account
\* is processed is caught and reported, and the run ends there: no request is
\* issued for the second account.
C7_ErrorEndsRun ==
    AccountError =>
        /\ pc = "done"
        /\ outcome = failedAt.error
        /\ acct = 1
        /\ \A i \in 1..Len(requests) : requests[i].acct = 1

\* a connection error while uploading the first account's stocks, with items
\* listed on the second account
C7_Witness ==
    /\ AccountError
    /\ failedAt.pc = "upload_stocks" /\ failedAt.error = "ConnectionError"
    /\ outcome = "ConnectionError"
    /\ catalog[2] # <<>>

\* C11: every stock update that create_stocks returns has a non-negative
\* quantity, for every feed whose quantity texts parse, texts with a leading
\* minus sign included.
C11_StockQuantitiesNonNegative ==
    \A s \in Scripts :
        StocksReturned(s) =>
            \A j \in 1..Len(stocksRet[s].value) : StockQty(stocksRet[s].value[j]) >= 0

====
